---- MODULE Spec2Model ----
(***************************************************************************)
(* Model of backend/impact_model.py: get_severity_details and              *)
(* calculate_impact_effects.                                                *)
(*                                                                         *)
(* The program computes in IEEE double precision.  The model computes in   *)
(* decimal fixed point, truncating toward zero after every operation, as   *)
(* the floating-point unit rounds after every operation:                   *)
(*   lengths (m, km), volumes (m^3), energies in Mt : 3 decimals (LenScale,*)
(*                                                    MtScale)             *)
(*   mass                                           : tonnes               *)
(*   energy in Joules                                : units of 10^10 J    *)
(*   cube root of the energy                         : 2 decimals          *)
(*   sine                                            : 4 decimals (SinScale)*)
(*   angles                                          : 7 decimals (AngleUnit)*)
(* Values that are not finite reals (the infinity and NaN of a division by *)
(* zero, the complex result of a fractional power of a negative float) are *)
(* kept apart from the finite ones by the "kind" field of a number.        *)
(***************************************************************************)
EXTENDS Integers, Sequences, FiniteSets, TLC

VARIABLES
  module,     \* the module-level names ASTEROID_DENSITY_KGM3, JOULES_PER_MEGATON_TNT
  pc,         \* per caller: "idle", "returned" (holds a report) or "raised"
  request,    \* per caller: the arguments of its call
  report,     \* per caller: the dict it was handed, which it may mutate
  returned,   \* per caller: the dict as it was when the call returned
  exception   \* per caller: the exception its call ended in, or "none"

vars == <<module, pc, request, report, returned, exception>>

(* ---------------------------- bounds ----------------------------------- *)
NumCallers == 2
MaxClock == 1

Callers == 1..NumCallers
Clock == 0..MaxClock

(* ---------------------------- fixed point ------------------------------ *)
LenScale == 1000
MtScale == 1000
SinScale == 10000
AngleUnit == 10000000
JouleUnitsPerTonneM2S2 == 2 * 10000000

Abs(x) == IF x < 0 THEN -x ELSE x
Sgn(x) == IF x < 0 THEN -1 ELSE IF x = 0 THEN 0 ELSE 1

(* <<floor(a*b/c), (a*b) % c>> for a, b >= 0 and c > 0, by binary long     *)
(* multiplication, so that no intermediate value leaves 32 bits.           *)
RECURSIVE MulDivQR(_, _, _)
MulDivQR(a, b, c) ==
  IF b = 0 THEN <<0, 0>>
  ELSE LET h == MulDivQR(a, b \div 2, c)
           dblCarry == IF h[2] >= c - h[2] THEN 1 ELSE 0
           dblRem == IF dblCarry = 1 THEN h[2] - (c - h[2]) ELSE 2 * h[2]
           aq == IF b % 2 = 1 THEN a \div c ELSE 0
           ar == IF b % 2 = 1 THEN a % c ELSE 0
           addCarry == IF dblRem >= c - ar THEN 1 ELSE 0
           addRem == IF addCarry = 1 THEN dblRem - (c - ar) ELSE dblRem + ar
       IN <<2 * h[1] + dblCarry + aq + addCarry, addRem>>

(* a*b/c truncated toward zero, c # 0 *)
TruncMulDiv(a, b, c) ==
  Sgn(a) * Sgn(b) * Sgn(c) * MulDivQR(Abs(a), Abs(b), Abs(c))[1]

(* numbers that can come out of the float arithmetic *)
Fin(x) == [kind |-> "finite", val |-> x]
Inf(s) == [kind |-> "inf", val |-> s]
NaN == [kind |-> "nan", val |-> 0]
Complex == [kind |-> "complex", val |-> 0]
Raise(e) == [kind |-> "raise", val |-> e]

(* math.pi *)
PiNum == 355
PiDen == 113

(* largest r with r^3 <= n, for 0 <= n < 1290^3 *)
IntCbrt(n) == CHOOSE r \in 0..1289 : r * r * r <= n /\ (r + 1) * (r + 1) * (r + 1) > n

(* x ** (1/3) for a float x given with 3 decimals; the result has 2        *)
(* decimals.  Python returns a complex number for a negative base.         *)
PowOneThird(x) == IF x < 0 THEN Complex ELSE Fin(IntCbrt(1000 * x))

(* k * x for an integer k; a value that is not finite stays what it is *)
Times(k, x) == IF x.kind = "finite" THEN Fin(k * x.val) ELSE x

(* sin of whole degrees 0..90, 4 decimals, rounded to nearest *)
SinTable ==
  << 0, 175, 349, 523, 698, 872, 1045, 1219, 1392, 1564, 1736, 1908, 2079,
     2250, 2419, 2588, 2756, 2924, 3090, 3256, 3420, 3584, 3746, 3907,
     4067, 4226, 4384, 4540, 4695, 4848, 5000, 5150, 5299, 5446, 5592,
     5736, 5878, 6018, 6157, 6293, 6428, 6561, 6691, 6820, 6947, 7071,
     7193, 7314, 7431, 7547, 7660, 7771, 7880, 7986, 8090, 8192, 8290,
     8387, 8480, 8572, 8660, 8746, 8829, 8910, 8988, 9063, 9135, 9205,
     9272, 9336, 9397, 9455, 9511, 9563, 9613, 9659, 9703, 9744, 9781,
     9816, 9848, 9877, 9903, 9925, 9945, 9962, 9976, 9986, 9994, 9998,
     10000 >>

(* sin of an angle in [0, 90] degrees: the table, interpolated between     *)
(* whole degrees and rounded to nearest at 4 decimals *)
SinFirstQuadrant(a) ==
  LET k == a \div AngleUnit
      frac == a % AngleUnit
  IN IF frac = 0 THEN SinTable[k + 1]
     ELSE SinTable[k + 1]
          + ((SinTable[k + 2] - SinTable[k + 1]) * frac + AngleUnit \div 2) \div AngleUnit

(* np.sin(np.radians(deg)) for -180 < deg < 180 *)
SinDeg(a) ==
  LET m == Abs(a)
      q == IF m > 90 * AngleUnit THEN 180 * AngleUnit - m ELSE m
  IN Sgn(a) * SinFirstQuadrant(q)

(* ---------------------------- get_severity_details --------------------- *)
LocalEvent ==
  [band |-> "Local Event", color |-> "green",
   actions |-> <<"Monitor official news.", "No immediate public action required.">>]
CityLevelEvent ==
  [band |-> "City Level Event", color |-> "yellow",
   actions |-> <<"Shelter away from windows.", "Expect shockwave.",
                 "Follow local authority instructions.">>]
RegionalThreat ==
  [band |-> "Regional Threat", color |-> "red",
   actions |-> <<"Evacuate within precaution radius immediately.",
                 "Seek high ground if in coastal area.">>]
GlobalEvent ==
  [band |-> "Global Event", color |-> "black",
   actions |-> <<"This is a globally significant event.",
                 "Follow national emergency broadcast instructions.">>]

(* variant: the first threshold taken inclusively *)
get_severity_details_LowInclusive(energy_mt) ==
  IF 10 * energy_mt <= MtScale THEN LocalEvent
  ELSE IF energy_mt < 10 * MtScale THEN CityLevelEvent
  ELSE IF energy_mt < 1000 * MtScale THEN RegionalThreat
  ELSE GlobalEvent

get_severity_details(energy_mt) ==
  IF 10 * energy_mt < MtScale THEN LocalEvent
  ELSE IF energy_mt < 10 * MtScale THEN CityLevelEvent
  ELSE IF energy_mt < 1000 * MtScale THEN RegionalThreat
  ELSE GlobalEvent

(* ---------------------------- calculate_impact_effects ----------------- *)
radius_m(diameter_m) == (diameter_m * LenScale) \div 2

Cube(r) == TruncMulDiv(TruncMulDiv(r, r, LenScale), r, LenScale)

volume_m3(radius) == TruncMulDiv(Cube(radius), 4 * PiNum, 3 * PiDen)

mass_kg(volume) == TruncMulDiv(volume, module.ASTEROID_DENSITY_KGM3, 1000 * LenScale)

(* variant: the factor 0.5 left out *)
kinetic_energy_J_NoHalf(mass, impact_speed_m_s) ==
  TruncMulDiv(mass, impact_speed_m_s * impact_speed_m_s, JouleUnitsPerTonneM2S2 \div 2)

kinetic_energy_J(mass, impact_speed_m_s) ==
  TruncMulDiv(mass, impact_speed_m_s * impact_speed_m_s, JouleUnitsPerTonneM2S2)

impact_energy_Mt(kinetic_energy) ==
  TruncMulDiv(kinetic_energy, MtScale, module.JOULES_PER_MEGATON_TNT)

base_crater_diameter_m(energy_mt) == Times(900, PowOneThird(energy_mt))

(* variant: the base diameter multiplied by the sine instead of divided *)
crater_long_axis_m_TimesSin(base, impact_angle_deg) ==
  LET s == SinDeg(impact_angle_deg)
  IN IF base.kind = "complex" THEN Complex
     ELSE Fin(TruncMulDiv(base.val, s, SinScale))

crater_long_axis_m(base, impact_angle_deg) ==
  LET s == SinDeg(impact_angle_deg)
  IN IF base.kind = "complex"
     THEN (IF s = 0 THEN Raise("ZeroDivisionError") ELSE Complex)
     ELSE IF s = 0 THEN (IF base.val = 0 THEN NaN ELSE Inf(Sgn(base.val)))
     ELSE Fin(TruncMulDiv(base.val, SinScale, s))

precaution_radius_km(long_axis) ==
  IF long_axis.kind = "finite" THEN Fin(TruncMulDiv(3, long_axis.val, 1000)) ELSE long_axis

(* variant: the upper threshold taken inclusively *)
is_airburst_risk_UpperInclusive(energy_mt) ==
  MtScale <= 10 * energy_mt /\ energy_mt <= 1000 * MtScale

(* variant: the lower threshold at 1 Mt *)
is_airburst_risk_FromOneMt(energy_mt) ==
  MtScale <= energy_mt /\ energy_mt < 1000 * MtScale

is_airburst_risk(energy_mt) == MtScale <= 10 * energy_mt /\ energy_mt < 1000 * MtScale

shockwave_damage_radius_km(energy_mt) ==
  IF is_airburst_risk(energy_mt) THEN Times(300, PowOneThird(energy_mt)) ELSE Fin(0)

(* variant: the threshold taken inclusively *)
tsunami_risk_AtLeast(impact_in_water, energy_mt) ==
  impact_in_water /\ energy_mt >= 1 * MtScale

tsunami_risk(impact_in_water, energy_mt) == impact_in_water /\ energy_mt > 1 * MtScale

crater_shape(impact_angle_deg) ==
  IF impact_angle_deg < 80 * AngleUnit THEN "oval" ELSE "circular"

(* variant: the early return also carries the coordinates *)
NoEffectReport_WithCoords(req) ==
  [impact_body |-> req.impact_body, notes |-> "No direct effect on Earth expected.",
   impact_coords |-> [lat |-> req.lat, lon |-> req.lon]]

(* the early return for a body other than Earth *)
NoEffectReport(req) ==
  [impact_body |-> req.impact_body, notes |-> "No direct effect on Earth expected."]

(* variant: latitude and longitude swapped *)
impact_coords_Swapped(req) == [lat |-> req.lon, lon |-> req.lat]

impact_coords(req) == [lat |-> req.lat, lon |-> req.lon]

(* variant: the actions list is one object per band, shared with the       *)
(* reports handed out earlier *)
recommended_actions_Shared(severity) ==
  LET holders == {c \in Callers : /\ pc[c] = "returned"
                                  /\ "severity_band" \in DOMAIN report[c]
                                  /\ report[c].severity_band = severity.band}
  IN IF holders = {} THEN severity.actions
     ELSE report[CHOOSE c \in holders : TRUE].recommended_actions

recommended_actions(severity) == severity.actions

calculate_impact_effects(req, utcnow) ==
  IF req.impact_body # "Earth"
  THEN NoEffectReport(req)
  ELSE
    LET energy_J == kinetic_energy_J(mass_kg(volume_m3(radius_m(req.diameter_m))),
                                     req.impact_speed_m_s)
        energy_Mt == impact_energy_Mt(energy_J)
        severity == get_severity_details(energy_Mt)
        base == base_crater_diameter_m(energy_Mt)
        long == crater_long_axis_m(base, req.impact_angle_deg)
        airburst == is_airburst_risk(energy_Mt)
    IN IF long.kind = "raise" THEN [raised |-> long.val] ELSE
       [impact_body |-> "Earth",
        impact_coords |-> impact_coords(req),
        impact_in_water |-> req.impact_in_water,
        impact_energy_J |-> energy_J,
        impact_energy_Mt |-> energy_Mt,
        crater_details |-> [shape |-> crater_shape(req.impact_angle_deg),
                            long_axis_m_est |-> long,
                            short_axis_m_est |-> base],
        precaution_radius_km_est |-> precaution_radius_km(long),
        severity_band |-> severity.band,
        severity_color |-> severity.color,
        shockwave_effects |->
          [is_airburst_risk |-> airburst,
           damage_radius_km_est |-> shockwave_damage_radius_km(energy_Mt),
           description |->
             IF airburst
             THEN "Widespread window breakage expected. Risk of injury from flying glass."
             ELSE "Negligible atmospheric shockwave effects."],
        tsunami_risk |-> tsunami_risk(req.impact_in_water, energy_Mt),
        recommended_actions |-> recommended_actions(severity),
        confidence_pct |-> 75,
        notes |-> "Prototype estimate based on simplified models. Not for official use.",
        timestamp_utc |-> <<utcnow, "Z">>]

(* ---------------------------- inputs ----------------------------------- *)
Diameters == {-20, 0, 8, 20, 30, 140}
Speeds == {-20000, 0, 20000, 23900, 30000, 40793, 41125}
Angles == {-10 * AngleUnit, 0, 45 * AngleUnit, 80 * AngleUnit, 89 * AngleUnit,
           90 * AngleUnit - 1, 90 * AngleUnit, 100 * AngleUnit}
Lats == {55, -91}
Lons == {61, 200}
Bodies == {"Earth", "Mars"}

Requests ==
  [diameter_m : Diameters, impact_speed_m_s : Speeds, impact_angle_deg : Angles,
   lat : Lats, lon : Lons, impact_body : Bodies, impact_in_water : BOOLEAN]

Chelyabinsk ==
  [diameter_m |-> 20, impact_speed_m_s |-> 20000, impact_angle_deg |-> 45 * AngleUnit,
   lat |-> 55, lon |-> 61, impact_body |-> "Earth", impact_in_water |-> FALSE]

NoRequest == [impact_body |-> "none"]
NoReport == [notes |-> "none"]

(* ---------------------------- the program ------------------------------ *)
(* JOULES_PER_MEGATON_TNT = 4.184e15 J is 418400 units of 10^10 J *)
Init ==
  /\ module = [ASTEROID_DENSITY_KGM3 |-> 3500, JOULES_PER_MEGATON_TNT |-> 418400]
  /\ pc = [c \in Callers |-> "idle"]
  /\ request = [c \in Callers |-> NoRequest]
  /\ report = [c \in Callers |-> NoReport]
  /\ returned = [c \in Callers |-> NoReport]
  /\ exception = [c \in Callers |-> "none"]

(* caller c calls calculate_impact_effects(req) at clock reading t *)
Call(c, req, t) ==
  /\ pc[c] = "idle"
  /\ LET out == calculate_impact_effects(req, t)
     IN IF "raised" \in DOMAIN out
        THEN /\ pc' = [pc EXCEPT ![c] = "raised"]
             /\ exception' = [exception EXCEPT ![c] = out.raised]
             /\ UNCHANGED <<report, returned>>
        ELSE /\ pc' = [pc EXCEPT ![c] = "returned"]
             /\ report' = [report EXCEPT ![c] = out]
             /\ returned' = [returned EXCEPT ![c] = out]
             /\ UNCHANGED exception
  /\ request' = [request EXCEPT ![c] = req]
  /\ UNCHANGED module

(* caller c changes the recommended_actions list of the report it holds *)
Mutate(c) ==
  /\ pc[c] = "returned"
  /\ "recommended_actions" \in DOMAIN report[c]
  /\ report[c].recommended_actions = returned[c].recommended_actions
  /\ report' = [report EXCEPT ![c].recommended_actions = Append(@, "tampered")]
  /\ UNCHANGED <<module, pc, request, returned, exception>>

(* caller c drops what its call left it with *)
Discard(c) ==
  /\ pc[c] # "idle"
  /\ pc' = [pc EXCEPT ![c] = "idle"]
  /\ request' = [request EXCEPT ![c] = NoRequest]
  /\ report' = [report EXCEPT ![c] = NoReport]
  /\ returned' = [returned EXCEPT ![c] = NoReport]
  /\ exception' = [exception EXCEPT ![c] = "none"]
  /\ UNCHANGED module

(* one caller, every request *)
Next ==
  \/ \E req \in Requests, t \in Clock : Call(1, req, t)
  \/ Discard(1)

Spec == Init /\ [][Next]_vars

(* several callers interleaving, a few requests *)
ScenarioRequests ==
  {Chelyabinsk,
   [Chelyabinsk EXCEPT !.impact_body = "Mars"],
   [Chelyabinsk EXCEPT !.diameter_m = 140, !.impact_in_water = TRUE],
   [Chelyabinsk EXCEPT !.impact_angle_deg = 0]}

NextCallers ==
  \/ \E c \in Callers, req \in ScenarioRequests, t \in Clock : Call(c, req, t)
  \/ \E c \in Callers : Mutate(c)
  \/ \E c \in Callers : Discard(c)

SpecCallers == Init /\ [][NextCallers]_vars

(* ---------------------------- properties ------------------------------- *)
EarthReturned(c) == pc[c] = "returned" /\ request[c].impact_body = "Earth"
Called(c) == pc[c] # "idle"

Valid(req) ==
  /\ req.diameter_m > 0
  /\ req.impact_speed_m_s > 0
  /\ req.impact_angle_deg > 0
  /\ req.impact_angle_deg <= 90 * AngleUnit

EarthKeys ==
  {"impact_body", "impact_coords", "impact_in_water", "impact_energy_J",
   "impact_energy_Mt", "crater_details", "precaution_radius_km_est",
   "severity_band", "severity_color", "shockwave_effects", "tsunami_risk",
   "recommended_actions", "confidence_pct", "notes", "timestamp_utc"}

SeverityRows == {LocalEvent, CityLevelEvent, RegionalThreat, GlobalEvent}

WithoutTimestamp(r) == [k \in DOMAIN r \ {"timestamp_utc"} |-> r[k]]

(* C1: an Earth call whose diameter or speed is not positive, or whose     *)
(* angle is outside (0, 90], ends in an InvalidInput failure and returns   *)
(* no report.                                                              *)
C1_InvalidInputRejected ==
  \A c \in Callers :
    (Called(c) /\ request[c].impact_body = "Earth" /\ ~Valid(request[c]))
      => (pc[c] = "raised" /\ exception[c] = "InvalidInput")

(* C2: for an energy >= 0 the band and colour are those of the row whose   *)
(* half-open interval [0, 0.1), [0.1, 10), [10, 1000), [1000, inf) holds   *)
(* the energy; 0.1, 10 and 1000 belong to the higher band.                 *)
C2_SeverityBands ==
  \A c \in Callers :
    (EarthReturned(c) /\ returned[c].impact_energy_Mt >= 0) =>
      LET e == returned[c].impact_energy_Mt
          row == <<returned[c].severity_band, returned[c].severity_color>>
      IN /\ (10 * e < MtScale) => row = <<"Local Event", "green">>
         /\ (MtScale <= 10 * e /\ e < 10 * MtScale) => row = <<"City Level Event", "yellow">>
         /\ (10 * MtScale <= e /\ e < 1000 * MtScale) => row = <<"Regional Threat", "red">>
         /\ (1000 * MtScale <= e) => row = <<"Global Event", "black">>

(* C2 witness: a report at exactly 0.1 Mt, in the City Level band *)
C2_Witness ==
  /\ EarthReturned(1)
  /\ 10 * returned[1].impact_energy_Mt = MtScale
  /\ returned[1].severity_band = "City Level Event"

(* C3: a call for a body other than Earth returns a report with exactly    *)
(* the keys impact_body (the body passed in) and notes, whatever the other *)
(* arguments are.                                                          *)
C3_NonEarthMinimalReport ==
  \A c \in Callers :
    (Called(c) /\ request[c].impact_body # "Earth") =>
      /\ pc[c] = "returned"
      /\ DOMAIN returned[c] = {"impact_body", "notes"}
      /\ returned[c].impact_body = request[c].impact_body
      /\ returned[c].notes = "No direct effect on Earth expected."

(* C3 witness: a Mars call with a negative diameter and a zero angle *)
C3_Witness ==
  /\ pc[1] = "returned"
  /\ request[1].impact_body = "Mars"
  /\ request[1].diameter_m < 0
  /\ request[1].impact_angle_deg = 0
  /\ returned[1].impact_body = "Mars"

(* C4: in an Earth report is_airburst_risk is true exactly when            *)
(* 0.1 <= impact_energy_Mt < 1000, and when it is false the damage radius  *)
(* is 0.                                                                   *)
C4_AirburstInterval ==
  \A c \in Callers :
    EarthReturned(c) =>
      LET e == returned[c].impact_energy_Mt
          sw == returned[c].shockwave_effects
      IN /\ sw.is_airburst_risk <=> (MtScale <= 10 * e /\ e < 1000 * MtScale)
         /\ ~sw.is_airburst_risk => sw.damage_radius_km_est = Fin(0)

(* C4 witness: a report at exactly 1000 Mt, without airburst risk *)
C4_Witness ==
  /\ EarthReturned(1)
  /\ returned[1].impact_energy_Mt = 1000 * MtScale
  /\ ~returned[1].shockwave_effects.is_airburst_risk
  /\ returned[1].shockwave_effects.damage_radius_km_est = Fin(0)

(* C5: in an Earth report tsunami_risk is true exactly when the impact is  *)
(* in water and impact_energy_Mt > 1.                                      *)
C5_TsunamiFlag ==
  \A c \in Callers :
    EarthReturned(c) =>
      (returned[c].tsunami_risk
         <=> (request[c].impact_in_water /\ returned[c].impact_energy_Mt > MtScale))

(* C5 witness: a water impact of exactly 1 Mt, without tsunami risk *)
C5_Witness ==
  /\ EarthReturned(1)
  /\ request[1].impact_in_water
  /\ returned[1].impact_energy_Mt = MtScale
  /\ ~returned[1].tsunami_risk

C7_ChelyabinskAsStated ==
  \A c \in Callers :
    (Called(c) /\ request[c] = Chelyabinsk) =>
      /\ pc[c] = "returned"
      /\ 100 * returned[c].impact_energy_Mt >= 44 * MtScale
      /\ 100 * returned[c].impact_energy_Mt <= 46 * MtScale
      /\ returned[c].severity_band = "City Level Event"
      /\ returned[c].shockwave_effects.is_airburst_risk
      /\ ~returned[c].tsunami_risk

(* C7 amended: the Chelyabinsk-like request has an energy between 0.70 and *)
(* 0.71 Mt, the City Level band, airburst risk and no tsunami risk.        *)
C7_Chelyabinsk ==
  \A c \in Callers :
    (Called(c) /\ request[c] = Chelyabinsk) =>
      /\ pc[c] = "returned"
      /\ 100 * returned[c].impact_energy_Mt >= 70 * MtScale
      /\ 100 * returned[c].impact_energy_Mt <= 71 * MtScale
      /\ returned[c].severity_band = "City Level Event"
      /\ returned[c].shockwave_effects.is_airburst_risk
      /\ ~returned[c].tsunami_risk

(* C7 witness: the Chelyabinsk-like call has returned *)
C7_Witness ==
  /\ pc[1] = "returned"
  /\ request[1] = Chelyabinsk
  /\ returned[1].impact_body = "Earth"

(* C8: every report returned on the Earth branch has all fifteen fields    *)
(* and their sub-fields, confidence_pct 75, lat, lon and impact_in_water   *)
(* as passed in, and band, colour and actions from one severity row.       *)
C8_CompleteReport ==
  \A c \in Callers :
    EarthReturned(c) =>
      LET r == returned[c]
      IN /\ DOMAIN r = EarthKeys
         /\ DOMAIN r.impact_coords = {"lat", "lon"}
         /\ DOMAIN r.crater_details = {"shape", "long_axis_m_est", "short_axis_m_est"}
         /\ DOMAIN r.shockwave_effects
              = {"is_airburst_risk", "damage_radius_km_est", "description"}
         /\ r.impact_body = "Earth"
         /\ r.confidence_pct = 75
         /\ r.impact_coords.lat = request[c].lat
         /\ r.impact_coords.lon = request[c].lon
         /\ r.impact_in_water = request[c].impact_in_water
         /\ \E row \in SeverityRows :
              /\ r.severity_band = row.band
              /\ r.severity_color = row.color
              /\ r.recommended_actions = row.actions

(* C8 witness: a complete report for a zero angle, with an infinite axis *)
C8_Witness ==
  /\ EarthReturned(1)
  /\ request[1].impact_angle_deg = 0
  /\ request[1].lat # request[1].lon
  /\ returned[1].crater_details.long_axis_m_est.kind = "inf"
  /\ returned[1].timestamp_utc[2] = "Z"

(* C9: in an Earth report is_airburst_risk is true exactly when the band   *)
(* is City Level Event or Regional Threat, and tsunami_risk never comes    *)
(* with the band Local Event.                                              *)
C9_AirburstMatchesBand ==
  \A c \in Callers :
    EarthReturned(c) =>
      /\ returned[c].shockwave_effects.is_airburst_risk
           <=> returned[c].severity_band \in {"City Level Event", "Regional Threat"}
      /\ ~returned[c].shockwave_effects.is_airburst_risk
           <=> returned[c].severity_band \in {"Local Event", "Global Event"}
      /\ ~(returned[c].tsunami_risk /\ returned[c].severity_band = "Local Event")

(* C9 witness: a Regional Threat report with airburst and tsunami risk *)
C9_Witness ==
  /\ EarthReturned(1)
  /\ returned[1].severity_band = "Regional Threat"
  /\ returned[1].shockwave_effects.is_airburst_risk
  /\ returned[1].tsunami_risk

====
